---- MODULE Spec2Model ----
(***************************************************************************)
(* RandomOHLC (src/src/random_ohlc.py) as a state machine: one object,     *)
(* its base 1-minute frame, its resampled frames, and the position of the  *)
(* caller between the public methods.                                      *)
(*                                                                         *)
(* Prices before normalisation are integers counting tenths of the sixth   *)
(* decimal (1e-7), so that round(decimals=6) is a real rounding.  Prices   *)
(* after normalisation count 1e-4, the grid of round(x, 4).  Dates are     *)
(* minutes since 2000-01-01 00:00, the default start_date.                 *)
(*                                                                         *)
(* The quiz of src/streamlit_app.py is a second state machine in the same  *)
(* module: its session state, and the widgets its last script run drew.    *)
(***************************************************************************)
EXTENDS Integers, Sequences, FiniteSets, TLC

VARIABLES
    total_days,     \* self.total_days
    start_price,    \* self.start_price
    volatility,     \* self.volatility
    df_1min,        \* self.__df_1min: sequence of candles, None before generation
    resampled_data, \* self.__resampled_data: timeframe -> frame or None
    dist_key,       \* the key last looked up in __distribution_functions
    vol_ranges,     \* the zip(start_indices, end_indices) still to be spliced
    vol_selected,   \* the ranges __create_volatile_periods chose, with the rows
                    \* their starts and their ends were computed for
    new_df,         \* new_df of the last pass of the volatile loop, None before
    multiplier,     \* random_multiplier of the last normalisation, 0 before
    calls,          \* the public methods called so far, in order
    frame_index,    \* first date, last date and length of every frame of a
                    \* family, when only the DatetimeIndex is followed
    pc,             \* where the caller stands between the public methods
    exc,            \* the exception that ended the run, "none" otherwise
    session_state,  \* st.session_state of the quiz (src/streamlit_app.py)
    widgets,        \* the widgets the last script run of the quiz rendered
    round_scored    \* the round prepared last has had a guess recorded

ohlc_vars == <<total_days, start_price, volatility, df_1min, resampled_data,
               dist_key, vol_ranges, vol_selected, new_df, multiplier, calls,
               frame_index, pc, exc>>

quiz_vars == <<session_state, widgets, round_scored>>

vars == <<ohlc_vars, quiz_vars>>

-----------------------------------------------------------------------------
(* Bounds of the model *)

\* longest tick sequence handed to generate_random_df
MaxBars == 4

\* longest tick sequence when only generation, normalisation and resampling run
MaxLongBars == 7

\* most days of a run whose frames are followed by their index alone
MaxDays == 125

\* longest tick sequence when only the ranges of the volatile periods matter
MaxVolBars == 6

-----------------------------------------------------------------------------
(* Values *)

None == <<>>

\* float NaN: every price of the model is >= 0, NaN is the one value below
NaN == -1

IsNaN(x) == x = NaN

\* IEEE comparisons: anything compared with NaN is false
Le(a, b) == ~IsNaN(a) /\ ~IsNaN(b) /\ a <= b
Lt(a, b) == ~IsNaN(a) /\ ~IsNaN(b) /\ a < b
Gt(a, b) == Lt(b, a)

SetMax(S) == CHOOSE x \in S : \A y \in S : y <= x
SetMin(S) == CHOOSE x \in S : \A y \in S : x <= y

\* np.random.randint(low, high): high is exclusive
randint(low, high) == low .. (high - 1)

\* nearest multiple of grid to x / den * grid ... ties to the even multiple
\* (numpy rounds half to even); den > 0
round_half_even(num, den) ==
    LET q == num \div den
        r == num % den
    IN  IF 2 * r < den THEN q
        ELSE IF 2 * r > den THEN q + 1
        ELSE IF q % 2 = 0 THEN q ELSE q + 1

\* one unit of the sixth decimal, in the model's price unit
Decimal6 == 10

\* ndarray.round(decimals=6)
round6(x) == Decimal6 * round_half_even(x, Decimal6)

abs(x) == IF x < 0 THEN -x ELSE x

\* the agg_dict reductions over the cells of one bin, in row order; pandas
\* skips NaN cells and yields NaN for a bin without any value
agg_first(cells) ==
    LET K == {k \in 1..Len(cells) : ~IsNaN(cells[k])}
    IN  IF K = {} THEN NaN ELSE cells[SetMin(K)]
agg_last(cells) ==
    LET K == {k \in 1..Len(cells) : ~IsNaN(cells[k])}
    IN  IF K = {} THEN NaN ELSE cells[SetMax(K)]
agg_max(cells) ==
    LET V == {cells[k] : k \in 1..Len(cells)} \ {NaN}
    IN  IF V = {} THEN NaN ELSE SetMax(V)
agg_min(cells) ==
    LET V == {cells[k] : k \in 1..Len(cells)} \ {NaN}
    IN  IF V = {} THEN NaN ELSE SetMin(V)

\* one column of a frame
column(rows, name) ==
    [k \in 1..Len(rows) |->
        CASE name = "open" -> rows[k].open
          [] name = "high" -> rows[k].high
          [] name = "low"  -> rows[k].low
          [] name = "close" -> rows[k].close]

-----------------------------------------------------------------------------
(* __init__ *)

\* the keys of self.__distribution_functions: 1 normal, 2 laplace, 3 logistic
distribution_functions == <<"normal", "laplace", "logistic">>

timeframes == <<"1min", "5min", "15min", "30min", "1H", "2H", "4H",
                "1D", "3D", "1W", "1M">>

\* the outcomes one draw of a centered distribution of the given scale can
\* have, on the model's grid; scale 0 leaves only the location
StepValues(scale) == IF scale = 0 THEN {0} ELSE {-15, 0, 5}

\* tick frequencies the caller passes, in seconds per tick
Frequencies == {20, 60}

\* the object as the constructor leaves it; the constructor checks nothing
\* (and no quiz session has started: its session state has no key)
constructed ==
    /\ df_1min = None
    /\ resampled_data = [tf \in {timeframes[i] : i \in 1..Len(timeframes)} |-> None]
    /\ dist_key = 0
    /\ vol_ranges = <<>>
    /\ vol_selected = [ranges |-> <<>>, origins |-> <<>>]
    /\ new_df = None
    /\ multiplier = 0
    /\ calls = <<>>
    /\ frame_index = None
    /\ pc = "new"
    /\ exc = "none"
    /\ session_state = <<>>
    /\ widgets = {}
    /\ round_scored = FALSE

Init ==
    /\ total_days \in {0, 1}
    /\ start_price \in {0, 20}
    /\ volatility \in {0, 1}
    /\ constructed

-----------------------------------------------------------------------------
(* __generate_random_df *)

RECURSIVE cumsum(_)
\* np.cumsum
cumsum(s) ==
    IF Len(s) = 0 THEN <<>>
    ELSE LET head == cumsum(SubSeq(s, 1, Len(s) - 1))
         IN  Append(head, (IF Len(head) = 0 THEN 0 ELSE head[Len(head)]) + s[Len(s)])

\* df.price.resample("1min").ohlc(): tick k (from 0) lies at k * seconds,
\* bins are left-closed minutes labelled by their start
resample_ohlc(prices, seconds) ==
    LET n == Len(prices)
        minuteOf(k) == ((k - 1) * seconds) \div 60
        ticks(m) == {k \in 1..n : minuteOf(k) = m}
    IN  [j \in 1..(minuteOf(n) + 1) |->
            LET K == ticks(j - 1)
            IN  IF K = {} THEN [date |-> j - 1, open |-> NaN, high |-> NaN,
                                low |-> NaN, close |-> NaN]
                ELSE [date  |-> j - 1,
                      open  |-> prices[SetMin(K)],
                      high  |-> SetMax({prices[k] : k \in K}),
                      low   |-> SetMin({prices[k] : k \in K}),
                      close |-> prices[SetMax(K)]]]

\* lines 219-225, given the steps drawn on line 218
__generate_random_df(steps, seconds, start) ==
    LET steps0 == [steps EXCEPT ![1] = 0]
        sums == cumsum(steps0)
        prices == [k \in 1..Len(steps) |-> abs(round6(start + sums[k]))]
    IN  resample_ohlc(prices, seconds)

\* the keys np.random.randint(1, len(self.__distribution_functions)) can
\* hand to __distribution_functions.get
dist_func_keys == randint(1, Len(distribution_functions))

\* the public wrapper: draws the distribution, draws the steps, stores the
\* frame; the caller passes at most max_bars ticks
generate(max_bars) ==
    /\ pc = "new"
    /\ calls' = Append(calls, "generate_random_df")
    /\ \E num_bars \in 0..max_bars, seconds \in Frequencies,
          key \in dist_func_keys :
        /\ dist_key' = key
        /\ IF num_bars = 0
           THEN \* steps[0] = 0 on an empty array
                /\ exc' = "IndexError"
                /\ pc' = "raised"
                /\ UNCHANGED df_1min
           ELSE \E steps \in [1..num_bars -> StepValues(volatility)] :
                /\ df_1min' = __generate_random_df(steps, seconds, start_price)
                /\ pc' = "generated"
                /\ UNCHANGED exc
    /\ UNCHANGED <<quiz_vars, total_days, start_price, volatility, resampled_data,
                   vol_ranges, vol_selected, new_df, multiplier, frame_index>>

generate_random_df == generate(MaxBars)

-----------------------------------------------------------------------------
(* __create_volatile_periods *)

VOLATILE_PROB == 3
VOLATILE_PERIOD_MIN == 2
VOLATILE_PERIOD_MAX == 4

\* the values of random_chance drawn in the model, out of np.random.randint(1, 100)
RandomChances == {c \in randint(1, 100) : c \in {1, 2, 99}}

\* the elements of s that are > 0, in order (s[s > 0])
RECURSIVE positive(_)
positive(s) ==
    IF Len(s) = 0 THEN <<>>
    ELSE (IF s[1] > 0 THEN <<s[1]>> ELSE <<>>) \o positive(Tail(s))

\* the rows (from 0) of the elements that s[s > 0] keeps, from position i on
RECURSIVE positive_rows(_, _)
positive_rows(s, i) ==
    IF i > Len(s) THEN <<>>
    ELSE (IF s[i] > 0 THEN <<i - 1>> ELSE <<>>) \o positive_rows(s, i + 1)

\* zip: pairs up to the shorter sequence
zip(a, b) ==
    [k \in 1..(IF Len(a) < Len(b) THEN Len(a) ELSE Len(b)) |-> <<a[k], b[k]>>]

\* lines 231-252 for the draws given: chance is random_chance, draw[i] the
\* mask draw of row i, first[i] and second[i] the period draws of row i (a draw
\* that the mask multiplies by 0 has no effect, and 0 stands for it);
\* rows are 0-based as in the source
volatile_indices(length, chance, draw, first, second) ==
    LET mask0 == [i \in 0..(length - 1) |-> draw[i] < chance]
        array_masked == [i \in 0..(length - 1) |-> IF mask0[i] THEN first[i] ELSE 0]
        mask == [i \in 0..(length - 1) |-> mask0[i] /\ i + array_masked[i] < length]
        start_indices == [k \in 1..length |->
                            IF mask[k - 1] THEN (k - 1) + array_masked[k - 1] ELSE 0]
        end_indices == [k \in 1..length |->
                            start_indices[k] + (IF mask[k - 1] THEN second[k - 1] ELSE 0)]
    IN  [start_indices |-> start_indices, end_indices |-> end_indices]

\* lines 255-256 and 267 without the np.where of lines 259-263
volatile_ranges_unclipped(length, chance, draw, first, second) ==
    LET indices == volatile_indices(length, chance, draw, first, second)
    IN  zip(positive(indices.start_indices), positive(indices.end_indices))

\* lines 255-263 and the zip of line 267: the zeros are dropped from each
\* array, the ends are clipped to the last row, and the arrays are paired
volatile_ranges(length, chance, draw, first, second) ==
    LET indices == volatile_indices(length, chance, draw, first, second)
        starts == positive(indices.start_indices)
        ends0 == positive(indices.end_indices)
        ends == [k \in 1..Len(ends0) |->
                    IF ends0[k] > length - 1 THEN length - 1 ELSE ends0[k]]
    IN  zip(starts, ends)

\* the rows the starts and the ends of the pairs of line 267 were computed for
volatile_origins(length, chance, draw, first, second) ==
    LET indices == volatile_indices(length, chance, draw, first, second)
    IN  zip(positive_rows(indices.start_indices, 1),
            positive_rows(indices.end_indices, 1))

\* the period draws of the rows in rows, 0 elsewhere
PeriodDraws(length, rows) ==
    {[i \in 0..(length - 1) |-> IF i \in rows THEN f[i] ELSE 0] :
        f \in [rows -> randint(VOLATILE_PERIOD_MIN, VOLATILE_PERIOD_MAX)]}

\* the lists of ranges lines 231-263 can leave, with the rows they come
\* from, over every outcome of the draws
VolatileRangeOutcomes(length) ==
    UNION {UNION {
        LET masked == {i \in 0..(length - 1) : draw[i] < chance}
        IN  UNION {
                LET kept == {i \in masked : i + first[i] < length}
                IN  {[ranges  |-> volatile_ranges(length, chance, draw, first, second),
                      origins |-> volatile_origins(length, chance, draw, first, second)] :
                        second \in PeriodDraws(length, kept)} :
                first \in PeriodDraws(length, masked)} :
        draw \in [0..(length - 1) -> randint(1, VOLATILE_PROB)]} :
        chance \in RandomChances}

\* the outcomes for every length a frame of the model can have
VolatileRangeTable == [length \in 1..MaxBars |-> VolatileRangeOutcomes(length)]

\* create_realistic_ohlc up to the loop of __create_volatile_periods:
\* reset_index, then the choice of the ranges among the outcomes of the draws
create_volatile_periods(outcomes) ==
    /\ pc = "generated"
    /\ calls' = Append(calls, "create_realistic_ohlc")
    /\ \E selection \in outcomes :
        /\ vol_ranges' = selection.ranges
        /\ vol_selected' = selection
    /\ pc' = "volatile"
    /\ UNCHANGED <<quiz_vars, total_days, start_price, volatility, df_1min, resampled_data,
                   dist_key, new_df, multiplier, frame_index, exc>>

__create_volatile_periods == create_volatile_periods(VolatileRangeTable[Len(df_1min)])

\* the assignment with a slice that stops before endi, as a positional slice
\* would
splice_exclusive(df, starti, endi, values) ==
    [k \in 1..Len(df) |->
        IF starti <= k - 1 /\ k - 1 < endi
        THEN [date  |-> df[k].date,
              open  |-> values[k - starti].open,
              high  |-> values[k - starti].high,
              low   |-> values[k - starti].low,
              close |-> values[k - starti].close]
        ELSE df[k]]

\* df.loc[starti:endi, column] = new_df[column].values; .loc slices include endi
splice(df, starti, endi, values) ==
    [k \in 1..Len(df) |->
        IF starti <= k - 1 /\ k - 1 <= endi
        THEN [date  |-> df[k].date,
              open  |-> values[k - starti].open,
              high  |-> values[k - starti].high,
              low   |-> values[k - starti].low,
              close |-> values[k - starti].close]
        ELSE df[k]]

\* one pass of the loop on lines 267-278: a fresh 1min path of the range's
\* length, with the volatility scaled by uniform(1.01, 1.02), replaces the range
volatile_period_loop ==
    /\ pc = "volatile"
    /\ vol_ranges # <<>>
    /\ LET starti == vol_ranges[1][1]
           endi == vol_ranges[1][2]
           num_bars == endi - starti + 1
       IN  \E key \in dist_func_keys :
            /\ dist_key' = key
            /\ IF num_bars <= 0
               THEN /\ exc' = (IF num_bars = 0 THEN "IndexError" ELSE "ValueError")
                    /\ pc' = "raised"
                    /\ UNCHANGED <<df_1min, vol_ranges, new_df>>
               ELSE \E steps \in [1..num_bars -> StepValues(volatility)] :
                    /\ new_df' = __generate_random_df(steps, 60, start_price)
                    /\ df_1min' = splice(df_1min, starti, endi, new_df')
                    /\ vol_ranges' = Tail(vol_ranges)
                    /\ UNCHANGED <<pc, exc>>
    /\ UNCHANGED <<quiz_vars, total_days, start_price, volatility, resampled_data,
                   vol_selected, multiplier, calls, frame_index>>

-----------------------------------------------------------------------------
(* __correct_lowcolumn_error, __correct_highcolumn_error,
   __connect_open_close_candles *)

\* np.min(a, axis, out) on a pandas Series: numpy hands the call to
\* Series.min(axis=axis, out=out), which rejects an out argument; without
\* axis and out it is the reduction to the least value
np_min(a, axis, out) ==
    IF axis # None \/ out # None
    THEN [exc |-> "ValueError", value |-> NaN]
    ELSE [exc |-> "none", value |-> agg_min(a)]

np_max(a, axis, out) ==
    IF axis # None \/ out # None
    THEN [exc |-> "ValueError", value |-> NaN]
    ELSE [exc |-> "none", value |-> agg_max(a)]

\* np.where(low > open | low > high | low > close, np.min(...), low); the
\* arguments of np.where are evaluated before it is called
__correct_lowcolumn_error(df) ==
    LET fix == np_min(column(df, "open"), column(df, "high"), column(df, "close"))
    IN  IF fix.exc # "none" THEN [exc |-> fix.exc, value |-> None]
        ELSE [exc |-> "none",
              value |-> [k \in 1..Len(df) |->
                    IF \/ Gt(df[k].low, df[k].open)
                       \/ Gt(df[k].low, df[k].high)
                       \/ Gt(df[k].low, df[k].close)
                    THEN fix.value ELSE df[k].low]]

__correct_highcolumn_error(df) ==
    LET fix == np_max(column(df, "open"), column(df, "low"), column(df, "close"))
    IN  IF fix.exc # "none" THEN [exc |-> fix.exc, value |-> None]
        ELSE [exc |-> "none",
              value |-> [k \in 1..Len(df) |->
                    IF \/ Lt(df[k].high, df[k].open)
                       \/ Lt(df[k].high, df[k].low)
                       \/ Lt(df[k].high, df[k].close)
                    THEN fix.value ELSE df[k].high]]

\* Series.fillna(value)
fillna(x, value) == IF IsNaN(x) THEN value ELSE x

\* the connection without line 321: the first open keeps the 0 of fillna
connect_unseeded(df, start) ==
    [k \in 1..Len(df) |->
        [df[k] EXCEPT !.open = IF k = 1 THEN 0 ELSE fillna(df[k - 1].close, 0)]]

\* lines 319-321: open becomes close.shift(1).fillna(0), the first open
\* start_price
connect(df, start) ==
    [k \in 1..Len(df) |->
        [df[k] EXCEPT !.open = IF k = 1 THEN start ELSE fillna(df[k - 1].close, 0)]]

with_low(df, low) == [k \in 1..Len(df) |-> [df[k] EXCEPT !.low = low[k]]]
with_high(df, high) == [k \in 1..Len(df) |-> [df[k] EXCEPT !.high = high[k]]]

\* lines 328-329: the low column is corrected and stored, then the high
\* column; an exception leaves the frame as the lines before it left it
corrector(df) ==
    LET low == __correct_lowcolumn_error(df)
    IN  IF low.exc # "none" THEN [exc |-> low.exc, value |-> df]
        ELSE LET lowered == with_low(df, low.value)
                 high == __correct_highcolumn_error(lowered)
             IN  IF high.exc # "none" THEN [exc |-> high.exc, value |-> lowered]
                 ELSE [exc |-> "none", value |-> with_high(lowered, high.value)]

\* the rest of create_realistic_ohlc once the ranges are spliced: the
\* connection, the two corrections, and line 366, where set_index("date")
\* finds date already made the index on line 324
__connect_open_close_candles ==
    /\ pc = "volatile"
    /\ vol_ranges = <<>>
    /\ LET corrected == corrector(connect(df_1min, start_price))
       IN  /\ df_1min' = corrected.value
           /\ exc' = IF corrected.exc # "none" THEN corrected.exc ELSE "KeyError"
    /\ pc' = "raised"
    /\ UNCHANGED <<quiz_vars, total_days, start_price, volatility, resampled_data,
                   dist_key, vol_ranges, vol_selected, new_df, multiplier, calls,
                   frame_index>>

-----------------------------------------------------------------------------
(* normalize_ohlc_data *)

\* units of the fourth decimal in 1
Decimal4 == 10000

\* the multipliers drawn in the model, out of np.random.randint(9, 999)
Multipliers == {m \in randint(9, 999) : m \in {9, 500, 998}}

columns(c) == {c.open, c.high, c.low, c.close}

\* Series.max / np.max over the four columns: NaN cells are skipped
frame_values(df) == UNION {columns(df[i]) : i \in 1..Len(df)} \ {NaN}

\* round((x - _min) / (_max - _min) * random_multiplier, 4); a zero range
\* divides 0.0 by 0.0, which pandas evaluates to NaN without raising
normalize_value(x, _min, _max, random_multiplier) ==
    IF IsNaN(x) \/ _max = _min THEN NaN
    ELSE round_half_even((x - _min) * random_multiplier * Decimal4, _max - _min)

normalize_frame(df, random_multiplier) ==
    LET _max == SetMax(frame_values(df))
        _min == SetMin(frame_values(df))
        n(x) == normalize_value(x, _min, _max, random_multiplier)
    IN  [i \in 1..Len(df) |->
            [date  |-> df[i].date,
             open  |-> n(df[i].open),
             high  |-> n(df[i].high),
             low   |-> n(df[i].low),
             close |-> n(df[i].close)]]

normalize_ohlc_data ==
    /\ pc = "generated"
    /\ calls' = Append(calls, "normalize_ohlc_data")
    /\ \E random_multiplier \in Multipliers :
        /\ df_1min' = normalize_frame(df_1min, random_multiplier)
        /\ multiplier' = random_multiplier
    /\ pc' = "normalized"
    /\ UNCHANGED <<quiz_vars, total_days, start_price, volatility, resampled_data,
                   dist_key, vol_ranges, vol_selected, new_df, frame_index, exc>>

-----------------------------------------------------------------------------
(* __downsample_ohlc_data, __create_bars_table, resample_timeframes *)

MINUTES_IN_1DAY == 1440
HOURS_IN_1DAY == 24

\* pandas offsets of the ladder: a fixed width in minutes, or a calendar rule
offset_of(timeframe) ==
    CASE timeframe = "1min"  -> [kind |-> "tick", width |-> 1]
      [] timeframe = "5min"  -> [kind |-> "tick", width |-> 5]
      [] timeframe = "15min" -> [kind |-> "tick", width |-> 15]
      [] timeframe = "30min" -> [kind |-> "tick", width |-> 30]
      [] timeframe = "1H"    -> [kind |-> "tick", width |-> 60]
      [] timeframe = "2H"    -> [kind |-> "tick", width |-> 120]
      [] timeframe = "4H"    -> [kind |-> "tick", width |-> 240]
      [] timeframe = "1D"    -> [kind |-> "tick", width |-> MINUTES_IN_1DAY]
      [] timeframe = "3D"    -> [kind |-> "tick", width |-> 3 * MINUTES_IN_1DAY]
      [] timeframe = "1W"    -> [kind |-> "week", width |-> 7 * MINUTES_IN_1DAY]
      [] timeframe = "1M"    -> [kind |-> "month", width |-> 0]

\* days from 2000-01-01 (a Saturday) to the month ends of 2000 and 2001
month_ends == <<30, 59, 90, 120, 151, 181, 212, 243, 273, 304, 334, 365,
                396, 424, 455, 485, 516, 546, 577, 608, 638, 669, 699, 730>>

ceil_to(t, origin, width) == origin + ((t - origin + width - 1) \div width) * width

\* the label (right edge) of the right-closed bin that holds date t; tick bins
\* are anchored at the midnight of the frame's first day, weeks end on Sunday,
\* months on their last day, and a calendar bin holds its whole last day
bin_label(timeframe, t, origin) ==
    LET o == offset_of(timeframe)
        day == t \div MINUTES_IN_1DAY
    IN  CASE o.kind = "tick"  -> ceil_to(t, origin, o.width)
          [] o.kind = "week"  -> (day + ((1 - day) % 7)) * MINUTES_IN_1DAY
          [] o.kind = "month" ->
                month_ends[SetMin({k \in 1..Len(month_ends) : month_ends[k] >= day})]
                    * MINUTES_IN_1DAY

\* the number of bins from the one labelled l0 to the one labelled l1
label_count(timeframe, l0, l1) ==
    LET o == offset_of(timeframe)
    IN  IF o.kind = "month"
        THEN Cardinality({k \in 1..Len(month_ends) :
                            /\ l0 <= month_ends[k] * MINUTES_IN_1DAY
                            /\ month_ends[k] * MINUTES_IN_1DAY <= l1})
        ELSE (l1 - l0) \div o.width + 1

\* the j-th label from l0 on
nth_label(timeframe, l0, j) ==
    LET o == offset_of(timeframe)
    IN  IF o.kind = "month"
        THEN month_ends[SetMin({k \in 1..Len(month_ends) :
                                 month_ends[k] * MINUTES_IN_1DAY = l0}) + j - 1]
                * MINUTES_IN_1DAY
        ELSE l0 + (j - 1) * o.width

\* the DatetimeIndex of the resampled frame, from the first and the last date
\* of the frame it is resampled from: every bin from the first date's to the
\* last date's, empty or not
resample_index(timeframe, first, last) ==
    LET origin == (first \div MINUTES_IN_1DAY) * MINUTES_IN_1DAY
        l0 == bin_label(timeframe, first, origin)
        l1 == bin_label(timeframe, last, origin)
    IN  [first |-> l0, last |-> l1, len |-> label_count(timeframe, l0, l1)]

\* the rows of df, in order, that satisfy keep
RECURSIVE select_rows(_, _, _)
select_rows(df, keep(_), i) ==
    IF i > Len(df) THEN <<>>
    ELSE (IF keep(df[i]) THEN <<df[i]>> ELSE <<>>) \o select_rows(df, keep, i + 1)

\* df.resample(timeframe, label="right", closed="right").aggregate(agg_dict)
__downsample_ohlc_data(timeframe, df) ==
    LET origin == (df[1].date \div MINUTES_IN_1DAY) * MINUTES_IN_1DAY
        label(t) == bin_label(timeframe, t, origin)
        index == resample_index(timeframe, df[1].date, df[Len(df)].date)
    IN  [j \in 1..index.len |->
            LET l == nth_label(timeframe, index.first, j)
                in_bin(c) == label(c.date) = l
                rows == select_rows(df, in_bin, 1)
            IN  [date  |-> l,
                 open  |-> agg_first(column(rows, "open")),
                 high  |-> agg_max(column(rows, "high")),
                 low   |-> agg_min(column(rows, "low")),
                 close |-> agg_last(column(rows, "close"))]]

\* the bars table: the ladder above 1min, with the bar counts it expects
__create_bars_table(days) ==
    [timeframe \in {timeframes[k] : k \in 2..Len(timeframes)} |->
        CASE timeframe = "5min"  -> (days * MINUTES_IN_1DAY) \div 5
          [] timeframe = "15min" -> (days * MINUTES_IN_1DAY) \div 15
          [] timeframe = "30min" -> (days * MINUTES_IN_1DAY) \div 30
          [] timeframe = "1H"    -> days * HOURS_IN_1DAY
          [] timeframe = "2H"    -> (days * HOURS_IN_1DAY) \div 2
          [] timeframe = "4H"    -> (days * HOURS_IN_1DAY) \div 4
          [] timeframe = "1D"    -> days
          [] timeframe = "3D"    -> days \div 3
          [] timeframe = "1W"    -> days \div 7
          [] timeframe = "1M"    -> days \div 30]

\* every entry resampled from the base frame
prev_timeframe_base(k) == timeframes[1]

\* the source frame of the ladder entry at position k > 1 of timeframes:
\* prev_timeframe, the entry just before it
prev_timeframe(k) == timeframes[k - 1]

\* the frames after the loop has handled the first k timeframes
RECURSIVE resample_loop(_, _)
resample_loop(df, k) ==
    IF k = 1 THEN [tf \in {"1min"} |-> df]
    ELSE LET done == resample_loop(df, k - 1)
         IN  [tf \in DOMAIN done \cup {timeframes[k]} |->
                IF tf = timeframes[k]
                THEN __downsample_ohlc_data(tf, done[prev_timeframe(k)])
                ELSE done[tf]]

resample_timeframes ==
    /\ pc \in {"generated", "normalized"}
    /\ calls' = Append(calls, "resample_timeframes")
    /\ resampled_data' = resample_loop(df_1min, Len(timeframes))
    /\ pc' = "returned"
    /\ UNCHANGED <<quiz_vars, total_days, start_price, volatility, df_1min, dist_key,
                   vol_ranges, vol_selected, new_df, multiplier, frame_index, exc>>

-----------------------------------------------------------------------------
(* The lengths of a family, followed through the index of each frame *)

SECONDS_IN_1DAY == 86400

\* the index of the frame generate_random_df(total_days * SECONDS_IN_1DAY,
\* "1S", ...) stores, as random_case calls it: one row per minute from the
\* first tick's minute to the last tick's
base_index(days) ==
    LET num_bars == days * SECONDS_IN_1DAY
        last == (num_bars - 1) \div 60
    IN  [first |-> 0, last |-> last, len |-> last + 1]

\* the loop of resample_timeframes on the indexes alone
RECURSIVE index_loop(_, _)
index_loop(base, k) ==
    IF k = 1 THEN [tf \in {"1min"} |-> base]
    ELSE LET done == index_loop(base, k - 1)
             prev == done[prev_timeframe(k)]
         IN  [tf \in DOMAIN done \cup {timeframes[k]} |->
                IF tf = timeframes[k]
                THEN resample_index(tf, prev.first, prev.last)
                ELSE done[tf]]

\* generate_random_df and resample_timeframes of a run of total_days days,
\* on the indexes alone
resample_timeframes_index ==
    /\ pc = "new"
    /\ total_days > 0
    /\ calls' = calls \o <<"generate_random_df", "resample_timeframes">>
    /\ frame_index' = index_loop(base_index(total_days), Len(timeframes))
    /\ pc' = "returned"
    /\ UNCHANGED <<quiz_vars, total_days, start_price, volatility, df_1min, resampled_data,
                   dist_key, vol_ranges, vol_selected, new_df, multiplier, exc>>


-----------------------------------------------------------------------------
(* The quiz of src/streamlit_app.py: every step is one event of the page,
   the callback registered for it, and the script run (main) that follows.
   An absent value is the empty sequence, a present value x is <<x>>. *)

\* class GameState
START == -1
INITIAL == 0
SHOW_RESULT == 1
FINISHED == 2

\* the closing prices a generated series can have on the future day, and the
\* prices the three other choices can be rounded to
Prices == {10, 11}

Difficulties == {"Easy", "Medium", "Hard"}

\* the keys initialize_session_state sets when they are missing, with their
\* values (uuid is written and never read)
session_defaults ==
    [score        |-> [right |-> 0, wrong |-> 0],
     game_state   |-> START,
     data         |-> None,
     future_price |-> None,
     choices      |-> None,
     user_choice  |-> None,
     difficulty   |-> "Easy",
     guesses      |-> <<>>]

initialize_session_state(ss) ==
    [key \in DOMAIN session_defaults |->
        IF key \in DOMAIN ss THEN ss[key] ELSE session_defaults[key]]

\* sorted([future_price] + three prices near it)
RoundChoices(future_price) ==
    {c \in [1..4 -> Prices] :
        /\ \A i \in 1..3 : c[i] <= c[i + 1]
        /\ \E i \in 1..4 : c[i] = future_price}

\* the outcomes of the draws of one prepare_new_round
RoundDraws ==
    UNION {{[future_price |-> f, choices |-> c] : c \in RoundChoices(f)} :
            f \in Prices}

\* prepare_new_round, for the series and the choices drawn
prepare_new_round(ss, draw) ==
    [ss EXCEPT !.data = <<"df">>,
               !.future_price = <<draw.future_price>>,
               !.choices = draw.choices,
               !.user_choice = None]

\* line 234 with a limit that is passed only beyond five attempts
game_over_late(total_attempts) == total_attempts > 5

\* line 234
game_over(total_attempts) == total_attempts >= 5

submit_callback(ss) ==
    IF ss.user_choice = None THEN ss
    ELSE LET total_attempts == ss.score.right + ss.score.wrong + 1
             right == ss.user_choice = ss.future_price
             score == IF right
                      THEN [ss.score EXCEPT !.right = @ + 1]
                      ELSE [ss.score EXCEPT !.wrong = @ + 1]
         IN  [ss EXCEPT
                !.guesses = Append(@, <<total_attempts, ss.user_choice[1],
                                        ss.future_price[1]>>),
                !.score = score,
                !.game_state = IF game_over(score.right + score.wrong)
                               THEN FINISHED ELSE SHOW_RESULT]

next_callback(ss, draw) ==
    prepare_new_round([ss EXCEPT !.game_state = INITIAL], draw)

start_callback(ss, draw) ==
    prepare_new_round([ss EXCEPT !.game_state = INITIAL], draw)

\* lines 318-321, with the value st.button returns in this run
show_results_page(ss, go_back) ==
    IF go_back
    THEN [ss EXCEPT !.score = [right |-> 0, wrong |-> 0],
                    !.game_state = START,
                    !.guesses = <<>>]
    ELSE ss

\* line 381 with the button drawn while the result is shown as well
submit_shown_always(game_state) == game_state \in {INITIAL, SHOW_RESULT}

\* line 381: the Submit button is drawn in the state INITIAL
submit_shown(game_state) == game_state = INITIAL

\* lines 368-370: main prepares a round before it draws the game page
main_prepares(ss) ==
    \/ ss.data = None
    \/ ss.game_state = INITIAL /\ ss.user_choice = None

\* one script run: the session state it leaves and the widgets it draws;
\* difficulty is the value of the difficulty radio in this run, go_back the
\* value of the Go Back to Start button, draw the draws of a new round
main(ss0, difficulty, go_back, draw) ==
    LET ss == initialize_session_state(ss0)
    IN  IF ss.game_state = START
        THEN [session |-> [ss EXCEPT !.difficulty = difficulty],
              widgets |-> {"difficulty", "Start Game"},
              prepared |-> FALSE]
        ELSE IF ss.game_state = FINISHED
        THEN [session |-> show_results_page(ss, go_back),
              widgets |-> {"Go Back to Start"},
              prepared |-> FALSE]
        ELSE [session |-> IF main_prepares(ss) THEN prepare_new_round(ss, draw)
                          ELSE ss,
              widgets |-> {"user_choice"}
                            \cup (IF submit_shown(ss.game_state) THEN {"Submit"}
                                  ELSE IF ss.game_state = SHOW_RESULT THEN {"Next"}
                                  ELSE {}),
              prepared |-> main_prepares(ss)]

\* the value the difficulty radio has in a run without a new pick: the one
\* it had when the last run drew it, its first option otherwise
difficulty_shown ==
    IF "difficulty" \in widgets THEN session_state.difficulty ELSE "Easy"

\* the script run that follows an event, from the session state ss the
\* event's callback left; scored tells whether the callback recorded a guess
\* and prepared whether it prepared a round
script_run(ss, difficulty, go_back, scored, prepared) ==
    /\ \E draw \in RoundDraws :
        LET ran == main(ss, difficulty, go_back, draw)
        IN  /\ session_state' = ran.session
            /\ widgets' = ran.widgets
            /\ round_scored' = IF ran.prepared THEN FALSE
                               ELSE IF scored THEN TRUE
                               ELSE IF prepared THEN FALSE
                               ELSE round_scored
    /\ UNCHANGED ohlc_vars

\* the page is loaded or reloaded: a script run without an event
rerun == script_run(session_state, difficulty_shown, FALSE, FALSE, FALSE)

\* the difficulty radio is set
select_difficulty ==
    /\ "difficulty" \in widgets
    /\ \E difficulty \in Difficulties :
        script_run(session_state, difficulty, FALSE, FALSE, FALSE)

\* Start Game is pressed
click_start ==
    /\ "Start Game" \in widgets
    /\ \E draw \in RoundDraws :
        script_run(start_callback(session_state, draw), difficulty_shown, FALSE,
                   FALSE, TRUE)

\* one of the choices is picked in the radio keyed user_choice
select_choice ==
    /\ "user_choice" \in widgets
    /\ \E i \in 1..Len(session_state.choices) :
        script_run([session_state EXCEPT
                        !.user_choice = <<session_state.choices[i]>>],
                   difficulty_shown, FALSE, FALSE, FALSE)

\* Submit is pressed
click_submit ==
    /\ "Submit" \in widgets
    /\ script_run(submit_callback(session_state), difficulty_shown, FALSE,
           session_state.user_choice # None, FALSE)

\* Next is pressed
click_next ==
    /\ "Next" \in widgets
    /\ \E draw \in RoundDraws :
        script_run(next_callback(session_state, draw), difficulty_shown, FALSE,
                   FALSE, TRUE)

\* Go Back to Start is pressed
click_go_back ==
    /\ "Go Back to Start" \in widgets
    /\ script_run(session_state, difficulty_shown, TRUE, FALSE, FALSE)

-----------------------------------------------------------------------------
(* Properties *)

called(method) == \E k \in 1..Len(calls) : calls[k] = method

\* the corrector step of create_realistic_ohlc is over
connect_over == called("create_realistic_ohlc") /\ pc # "volatile"

\* the parameters the specification calls valid (the volatilities of the
\* model are all finite)
ValidParameters == total_days > 0 /\ start_price > 0

NonConstant(df) == Cardinality(frame_values(df)) >= 2

ordered(c) ==
    /\ Le(c.low, c.open) /\ Le(c.low, c.close)
    /\ Le(c.open, c.high) /\ Le(c.close, c.high)

AllOrdered(df) == \A k \in 1..Len(df) : ordered(df[k])

Continuous(df) == \A k \in 2..Len(df) : df[k].open = df[k - 1].close

TimeframeSet == {timeframes[k] : k \in 1..Len(timeframes)}

\* C1: once the corrector step of a run with valid parameters over a
\* non-constant series is over, the run has not failed, and every candle of
\* the base frame and of every frame of the family satisfies
\* low <= min(open, close) and high >= max(open, close).
C1_ReturnedFamilyOrdered ==
    (connect_over /\ ValidParameters /\ NonConstant(df_1min)) =>
        /\ exc = "none"
        /\ AllOrdered(df_1min)
        /\ \A tf \in TimeframeSet : AllOrdered(resampled_data[tf])

\* C2: once the connector of a run with valid parameters over a non-constant
\* series has run, the run goes on without failing and the base frame, also
\* as the family holds it, has every open equal to the close before it.
C2_ReturnedBaseContinuous ==
    (connect_over /\ ValidParameters /\ NonConstant(df_1min)) =>
        /\ exc = "none"
        /\ Continuous(df_1min)
        /\ Continuous(resampled_data["1min"])

\* the right-closed bin labelled l of a timeframe holds date t: a fixed-width
\* bin is (l - width, l]; a week is the seven days up to its Sunday, a month
\* the days after the month end before up to its own month end
in_bin(timeframe, t, l) ==
    LET o == offset_of(timeframe)
        day(x) == x \div MINUTES_IN_1DAY
        before == {e \in {month_ends[k] : k \in 1..Len(month_ends)} : e < day(l)}
    IN  CASE o.kind = "tick"  -> l - o.width < t /\ t <= l
          [] o.kind = "week"  -> day(l) - 7 < day(t) /\ day(t) <= day(l)
          [] o.kind = "month" -> /\ day(t) <= day(l)
                                 /\ \A e \in before : e < day(t)

\* l is a label of the timeframe: a multiple of the width from the midnight
\* origin, the midnight of a Sunday, or the midnight of a month end
is_label(timeframe, l, origin) ==
    LET o == offset_of(timeframe)
        day == l \div MINUTES_IN_1DAY
    IN  CASE o.kind = "tick"  -> (l - origin) % o.width = 0
          [] o.kind = "week"  -> l % MINUTES_IN_1DAY = 0 /\ day % 7 = 1
          [] o.kind = "month" -> /\ l % MINUTES_IN_1DAY = 0
                                 /\ \E k \in 1..Len(month_ends) : month_ends[k] = day

\* coarse is the aggregation of fine into the bins of the timeframe
Aggregates(timeframe, fine, coarse) ==
    LET origin == (fine[1].date \div MINUTES_IN_1DAY) * MINUTES_IN_1DAY
        run(j) == {i \in 1..Len(fine) : in_bin(timeframe, fine[i].date, coarse[j].date)}
    IN  /\ \A i \in 1..Len(fine) : \E j \in 1..Len(coarse) : i \in run(j)
        /\ \A j \in 1..Len(coarse) :
            /\ is_label(timeframe, coarse[j].date, origin)
            /\ j > 1 => coarse[j - 1].date < coarse[j].date
            /\ run(j) # {}
            /\ run(j) = SetMin(run(j)) .. SetMax(run(j))
            /\ coarse[j].open = fine[SetMin(run(j))].open
            /\ coarse[j].close = fine[SetMax(run(j))].close
            /\ coarse[j].high = SetMax({fine[i].high : i \in run(j)})
            /\ coarse[j].low = SetMin({fine[i].low : i \in run(j)})

\* C3: in the family resample_timeframes leaves, the 1min entry is the base
\* frame and every later ladder entry is the aggregation (first open, max
\* high, min low, last close) of the entry just before it into right-closed,
\* right-labelled bins, each bin a contiguous run of the finer candles.
C3_AdjacentLevelsAggregate ==
    pc = "returned" =>
        /\ resampled_data["1min"] = df_1min
        /\ \A k \in 2..Len(timeframes) :
            Aggregates(timeframes[k], resampled_data[timeframes[k - 1]],
                       resampled_data[timeframes[k]])

\* a family whose 5min frame has three bins, the middle one a full run of
\* five candles that peak and dip inside it, and whose 15min frame folds two
\* 5min candles of different highs
C3_Witness ==
    /\ pc = "returned"
    /\ Len(resampled_data["5min"]) >= 3
    /\ LET c == resampled_data["5min"][2]
       IN  /\ c.high > c.open /\ c.high > c.close
           /\ c.low < c.open /\ c.low < c.close
    /\ Len(resampled_data["15min"]) = 2
    /\ resampled_data["5min"][2].high # resampled_data["5min"][3].high
    /\ Len(resampled_data["1W"]) = 2

\* C4: the base frame of a run of total_days days has total_days * 1440
\* candles and every other frame of its family has the number of candles the
\* bars table gives for its timeframe; for 120 days the 1D frame has 120
\* candles and the 1W frame 17.
C4_LengthsMatchBarsTable ==
    frame_index # None =>
        /\ frame_index["1min"].len = total_days * MINUTES_IN_1DAY
        /\ \A tf \in TimeframeSet \ {"1min"} :
            frame_index[tf].len = __create_bars_table(total_days)[tf]
        /\ total_days = 120 =>
            /\ frame_index["1D"].len = 120
            /\ frame_index["1W"].len = 17

cells(df) == UNION {columns(df[k]) : k \in 1..Len(df)}

\* C5: after normalize_ohlc_data every open, high, low and close of the base
\* frame lies in [0, multiplier], some value is 0 and some is multiplier.
C5_ScaleBound ==
    called("normalize_ohlc_data") =>
        /\ \A v \in cells(df_1min) : Le(0, v) /\ Le(v, multiplier * Decimal4)
        /\ 0 \in cells(df_1min)
        /\ multiplier * Decimal4 \in cells(df_1min)

\* C6: a call of normalize_ohlc_data on a constant base frame ends with a
\* DegenerateSeriesError raised to the caller.
C6_DegenerateRejected ==
    [][(/\ calls' # calls
        /\ calls'[Len(calls')] = "normalize_ohlc_data"
        /\ ~NonConstant(df_1min))
       => (exc' = "DegenerateSeriesError" /\ pc' = "raised")]_vars

\* C7: with invalid parameters (total_days <= 0 or start_price <= 0) the
\* first call ends with a ConfigurationError and no generation step has run:
\* no distribution was drawn and no frame was built.
C7_InvalidRejected ==
    (~ValidParameters /\ calls # <<>>) =>
        /\ exc = "ConfigurationError"
        /\ dist_key = 0
        /\ df_1min = None

\* C8: the corrector applied to a frame yields a frame, and applied to that
\* frame yields it again, for every frame the object holds.
C8_CorrectorIdempotent ==
    df_1min # None =>
        LET once == corrector(df_1min)
            twice == corrector(once.value)
        IN  /\ once.exc = "none"
            /\ twice.exc = "none"
            /\ twice.value = once.value

\* C9: once the connector has shifted the closes into the opens and the
\* corrector has been applied, the run has not failed and one more corrector
\* pass changes no low and no high.
C9_FixedPointAfterConnect ==
    connect_over =>
        /\ exc = "none"
        /\ corrector(df_1min).exc = "none"
        /\ corrector(df_1min).value = df_1min

\* C11: the connector leaves the frame with its length and its close column
\* as they were, the first open equal to start_price and every later open
\* equal to the close the candle before it had when the connector began.
C11_ConnectorPostState ==
    [][(pc = "volatile" /\ vol_ranges = <<>> /\ pc' # pc) =>
        /\ Len(df_1min') = Len(df_1min)
        /\ df_1min'[1].open = start_price
        /\ \A k \in 2..Len(df_1min) : df_1min'[k].open = df_1min[k - 1].close
        /\ \A k \in 1..Len(df_1min) : df_1min'[k].close = df_1min[k].close]_vars

\* the connector has run on a frame of two candles or more whose first close
\* left the start price, and it moved an open out of its candle's band
C11_Witness ==
    /\ connect_over
    /\ vol_ranges = <<>>
    /\ Len(df_1min) >= 2
    /\ df_1min[1].open = start_price
    /\ df_1min[1].close # start_price
    /\ df_1min[2].open = df_1min[1].close
    /\ \E k \in 2..Len(df_1min) :
        df_1min[k].open < df_1min[k].low \/ df_1min[k].open > df_1min[k].high

\* C12: the corrector applied to a frame the object holds yields a frame
\* with the same opens and closes, with no low above and no high below the
\* one it had, and with every candle that was ordered left as it was.
C12_CorrectorWidens ==
    df_1min # None =>
        LET corrected == corrector(df_1min)
        IN  /\ corrected.exc = "none"
            /\ \A k \in 1..Len(df_1min) :
                /\ corrected.value[k].open = df_1min[k].open
                /\ corrected.value[k].close = df_1min[k].close
                /\ corrected.value[k].low <= df_1min[k].low
                /\ corrected.value[k].high >= df_1min[k].high
                /\ ordered(df_1min[k]) => corrected.value[k] = df_1min[k]

\* C13: whenever the step generator has picked a distribution, each of
\* normal, laplace and logistic was a possible outcome of the pick.
C13_EveryDistributionSelectable ==
    dist_key # 0 =>
        \A name \in {"normal", "laplace", "logistic"} :
            \E key \in dist_func_keys : distribution_functions[key] = name

\* the distribution the step generator picked is never the logistic one
NeverLogistic == dist_key # 0 => distribution_functions[dist_key] # "logistic"

\* the pairs __create_volatile_periods chose, as records
selected_ranges ==
    [k \in 1..Len(vol_selected.ranges) |->
        [start        |-> vol_selected.ranges[k][1],
         end          |-> vol_selected.ranges[k][2],
         start_origin |-> vol_selected.origins[k][1],
         end_origin   |-> vol_selected.origins[k][2]]]

\* C14 as claimed: every range the injector chose has
\* 0 <= start <= end <= len - 1, a start and an end computed for the same
\* row, and a length end - start + 1 within
\* [VOLATILE_PERIOD_MIN, VOLATILE_PERIOD_MAX].
C14_RangesWithinPeriod ==
    \A k \in 1..Len(selected_ranges) :
        LET r == selected_ranges[k]
        IN  /\ 0 <= r.start /\ r.start <= r.end /\ r.end <= Len(df_1min) - 1
            /\ r.start_origin = r.end_origin
            /\ r.end - r.start + 1 >= VOLATILE_PERIOD_MIN
            /\ r.end - r.start + 1 <= VOLATILE_PERIOD_MAX

\* C14 as amended: every range the injector chose has
\* 0 <= start <= end <= len - 1, a start and an end computed for the same
\* row, and a length of at most VOLATILE_PERIOD_MAX, which is more than
\* VOLATILE_PERIOD_MIN unless the range ends on the last row.
C14_RangesClipped ==
    \A k \in 1..Len(selected_ranges) :
        LET r == selected_ranges[k]
        IN  /\ 0 <= r.start /\ r.start <= r.end /\ r.end <= Len(df_1min) - 1
            /\ r.start_origin = r.end_origin
            /\ r.end - r.start + 1 <= VOLATILE_PERIOD_MAX
            /\ \/ r.end - r.start + 1 > VOLATILE_PERIOD_MIN
               \/ r.end = Len(df_1min) - 1

\* the injector chose a range that ends before the last row and one that the
\* clip to the last row left shorter than VOLATILE_PERIOD_MIN
C14_Witness ==
    /\ pc = "volatile"
    /\ \E k \in 1..Len(selected_ranges) :
        selected_ranges[k].end < Len(df_1min) - 1
    /\ \E k \in 1..Len(selected_ranges) :
        LET r == selected_ranges[k]
        IN  r.end = Len(df_1min) - 1 /\ r.end - r.start + 1 < VOLATILE_PERIOD_MIN

\* the open, high, low and close of a candle
ohlc(c) == <<c.open, c.high, c.low, c.close>>

\* C15: a pass of the volatile loop over the range [starti, endi] generates a
\* sub-path of exactly endi - starti + 1 candles and writes its opens, highs,
\* lows and closes over the rows starti..endi; the rows outside the range,
\* every date and the length of the frame stay as they were.
C15_SpliceFrameEffect ==
    [][(pc = "volatile" /\ vol_ranges # <<>> /\ vol_ranges' # vol_ranges) =>
        LET starti == vol_ranges[1][1]
            endi == vol_ranges[1][2]
        IN  /\ Len(new_df') = endi - starti + 1
            /\ Len(df_1min') = Len(df_1min)
            /\ \A k \in 1..Len(df_1min) :
                /\ df_1min'[k].date = df_1min[k].date
                /\ (k - 1 < starti \/ k - 1 > endi) => df_1min'[k] = df_1min[k]
                /\ (starti <= k - 1 /\ k - 1 <= endi) =>
                        ohlc(df_1min'[k]) = ohlc(new_df'[k - starti])]_vars

\* the loop has just replaced a range of two rows or more by a sub-path that
\* left the start price, in a frame with a row before the range that had left
\* the start price too
C15_Witness ==
    /\ pc = "volatile"
    /\ new_df # None
    /\ Len(vol_selected.ranges) > Len(vol_ranges)
    /\ LET r == vol_selected.ranges[Len(vol_selected.ranges) - Len(vol_ranges)]
       IN  /\ r[2] > r[1]
           /\ Len(new_df) = r[2] - r[1] + 1
           /\ df_1min[r[2] + 1].close = new_df[Len(new_df)].close
           /\ new_df[Len(new_df)].close # start_price
           /\ \E k \in 1..r[1] : df_1min[k].close # start_price

\* C16: in the family resample_timeframes leaves, the frame of every ladder
\* level above 1min equals the frame obtained by aggregating the base 1min
\* frame directly into that level's bins.
C16_ChainedEqualsDirect ==
    pc = "returned" =>
        \A k \in 2..Len(timeframes) :
            resampled_data[timeframes[k]] =
                __downsample_ohlc_data(timeframes[k], resampled_data["1min"])

\* the levels of a returned family whose frame is the direct aggregation of
\* the base frame
direct_levels ==
    {k \in 2..Len(timeframes) :
        resampled_data[timeframes[k]] =
            __downsample_ohlc_data(timeframes[k], resampled_data["1min"])}

\* the levels from 5min to 3D of every returned family are the direct
\* aggregation of the base frame
TickLevelsDirect == pc = "returned" => 2..9 \subseteq direct_levels

\* C17: once the session is initialised, the number of recorded guesses is
\* score.right + score.wrong, that sum is at most 5, and game_state is
\* FINISHED exactly when the sum is 5.
C17_GuessesMatchScore ==
    DOMAIN session_state # {} =>
        LET total == session_state.score.right + session_state.score.wrong
        IN  /\ Len(session_state.guesses) = total
            /\ total <= 5
            /\ session_state.game_state = FINISHED <=> total = 5

\* the fifth guess has been recorded, right and wrong ones among the five
C17_Witness ==
    /\ DOMAIN session_state # {}
    /\ session_state.game_state = FINISHED
    /\ Len(session_state.guesses) = 5
    /\ session_state.score.right >= 2
    /\ session_state.score.wrong >= 2

\* a step records a guess
guess_recorded ==
    /\ DOMAIN session_state # {}
    /\ Len(session_state'.guesses) > Len(session_state.guesses)

\* C18: a step that records a guess starts in the state INITIAL on a round
\* that has no guess recorded yet, records one guess, and ends in
\* SHOW_RESULT or FINISHED; and a session leaves SHOW_RESULT or FINISHED for
\* INITIAL only with a newly prepared round.
C18_RoundScoredOnce ==
    [][/\ guess_recorded =>
            /\ session_state.game_state = INITIAL
            /\ ~round_scored
            /\ round_scored'
            /\ Len(session_state'.guesses) = Len(session_state.guesses) + 1
            /\ session_state'.game_state \in {SHOW_RESULT, FINISHED}
       /\ (/\ DOMAIN session_state # {}
           /\ session_state.game_state # INITIAL
           /\ session_state'.game_state = INITIAL) =>
            /\ ~round_scored'
            /\ session_state'.user_choice = None]_vars

\* a second round is open after the first was scored
C18_Witness ==
    /\ DOMAIN session_state # {}
    /\ session_state.game_state = INITIAL
    /\ Len(session_state.guesses) = 1
    /\ ~round_scored
    /\ session_state.user_choice # None

-----------------------------------------------------------------------------
(* Specifications *)

\* every public method, called in the orders the object allows
Next ==
    \/ generate_random_df
    \/ __create_volatile_periods
    \/ volatile_period_loop
    \/ __connect_open_close_candles
    \/ normalize_ohlc_data
    \/ resample_timeframes

Spec == Init /\ [][Next]_vars

\* generation, normalisation and resampling of longer frames
InitResample ==
    /\ total_days = 1
    /\ start_price = 20
    /\ volatility = 1
    /\ constructed

generate_random_df_long == generate(MaxLongBars)

NextResample ==
    \/ generate_random_df_long
    \/ normalize_ohlc_data
    \/ resample_timeframes

SpecResample == InitResample /\ [][NextResample]_vars

\* the choice of the volatile periods on longer frames of constant price
InitVolatile ==
    /\ total_days = 1
    /\ start_price = 20
    /\ volatility = 0
    /\ constructed

generate_random_df_flat == generate(MaxVolBars)

__create_volatile_periods_flat ==
    create_volatile_periods(VolatileRangeOutcomes(Len(df_1min)))

NextVolatile ==
    \/ generate_random_df_flat
    \/ __create_volatile_periods_flat
    \/ volatile_period_loop

SpecVolatile == InitVolatile /\ [][NextVolatile]_vars

\* the quiz: a session from its first script run on
InitQuiz ==
    /\ total_days = 1
    /\ start_price = 20
    /\ volatility = 1
    /\ constructed

NextQuiz ==
    \/ rerun
    \/ select_difficulty
    \/ click_start
    \/ select_choice
    \/ click_submit
    \/ click_next
    \/ click_go_back

SpecQuiz == InitQuiz /\ [][NextQuiz]_vars

\* the lengths of the family of a run of 1..MaxDays days
InitLength ==
    /\ total_days \in 1..MaxDays
    /\ start_price = 20
    /\ volatility = 1
    /\ constructed

NextLength == resample_timeframes_index

SpecLength == InitLength /\ [][NextLength]_vars

====
